---- MODULE Spec2Model ----
(***************************************************************************)
(* A model of the retirement-portfolio tracker (src/app.py): the holdings  *)
(* table, the target_allocations table, the audit log file and the JSON    *)
(* handlers that read and write them.                                      *)
(*                                                                         *)
(* Numbers.  Python floats are modelled by exact dyadic fixed point, so    *)
(* that every value of the model is a float the code computes without      *)
(* rounding: money is an integer count of quarter dollars (0.25), a        *)
(* percentage is an integer count of 1/128 percent.  Text is a TLA+ string *)
(* handled character by character with Head, Tail, SubSeq and \o.          *)
(*                                                                         *)
(* JSON values of a request body are tagged records (JNum, JStr, JAbsent); *)
(* dict.get of a missing key and a JSON null both give None in the code    *)
(* and are both JAbsent here.                                              *)
(***************************************************************************)
EXTENDS Integers, Sequences, FiniteSets, TLC

VARIABLES
    holdings,   \* table holdings: id -> row
    nextId,     \* AUTOINCREMENT counter of holdings (sqlite_sequence + 1)
    targets,    \* table target_allocations: rows in rowid order
    auditLog,   \* lines of portfolio_audit.log, oldest first
    now,        \* the clock read by datetime.utcnow() / the log formatter
    pending,    \* the audit() call a handler has reached after db.commit()
    req,        \* the request being (or last) handled
    resp        \* the response to it

vars == <<holdings, nextId, targets, auditLog, now, pending, req, resp>>

----------------------------------------------------------------------------
(* Bounds of the model *)

MaxId == 2              \* ids handed out by AUTOINCREMENT
MaxClock == 1           \* ticks of the clock
MaxItems == 2           \* entries of one PUT /api/allocations body
MaxAuditLog == 2        \* lines in the audit log, per specification
MaxCreateLog == 2
MaxUpdateLog == 3
MaxRebalanceLog == 2
MaxRoundTripLog == 3

----------------------------------------------------------------------------
(* Text *)

Abs(n) == IF n < 0 THEN -n ELSE n

CharAt(s, i) == SubSeq(s, i, i)

\* str.isspace for the characters of the model
IsSpace(c) == c \in {" ", "\t"}

RECURSIVE LStrip(_)
LStrip(s) ==
    IF s = "" THEN ""
    ELSE IF IsSpace(Head(s)) THEN LStrip(Tail(s)) ELSE s

RECURSIVE RStrip(_)
RStrip(s) ==
    IF s = "" THEN ""
    ELSE IF IsSpace(CharAt(s, Len(s))) THEN RStrip(SubSeq(s, 1, Len(s) - 1)) ELSE s

\* str.strip()
Strip(s) == RStrip(LStrip(s))

UpperChar(c) ==
    CASE c = "a" -> "A" [] c = "b" -> "B" [] c = "c" -> "C" [] c = "d" -> "D"
      [] c = "e" -> "E" [] c = "f" -> "F" [] c = "g" -> "G" [] c = "h" -> "H"
      [] c = "i" -> "I" [] c = "j" -> "J" [] c = "k" -> "K" [] c = "l" -> "L"
      [] c = "m" -> "M" [] c = "n" -> "N" [] c = "o" -> "O" [] c = "p" -> "P"
      [] c = "q" -> "Q" [] c = "r" -> "R" [] c = "s" -> "S" [] c = "t" -> "T"
      [] c = "u" -> "U" [] c = "v" -> "V" [] c = "w" -> "W" [] c = "x" -> "X"
      [] c = "y" -> "Y" [] c = "z" -> "Z" [] OTHER -> c

\* str.upper()
RECURSIVE Upper(_)
Upper(s) == IF s = "" THEN "" ELSE UpperChar(Head(s)) \o Upper(Tail(s))

\* str.ljust(n): pad with spaces on the right, never truncate
RECURSIVE LJust(_, _)
LJust(s, n) == IF Len(s) >= n THEN s ELSE LJust(s \o " ", n)

DigitChar(d) == CharAt("0123456789", d + 1)

\* the decimal digits of a natural number
RECURSIVE NatStr(_)
NatStr(n) == IF n < 10 THEN DigitChar(n) ELSE NatStr(n \div 10) \o DigitChar(n % 10)

TwoDigits(n) == DigitChar(n \div 10) \o DigitChar(n % 10)

\* f"{total:.1f}" of a percentage u/128 >= 0: correctly rounded, ties to even
Fmt1(u) ==
    LET q == (u * 10) \div 128
        r == (u * 10) % 128
        t == IF r > 64 \/ (r = 64 /\ q % 2 = 1) THEN q + 1 ELSE q
    IN  NatStr(t \div 10) \o "." \o DigitChar(t % 10)

\* f"{v:.2f}" of an amount q/4: quarters are exact in two decimals
Fmt2(q) ==
    (IF q < 0 THEN "-" ELSE "") \o NatStr(Abs(q) \div 4) \o "." \o TwoDigits((Abs(q) % 4) * 25)

\* first index of character c in s, 0 if none
RECURSIVE FindFrom(_, _, _)
FindFrom(s, c, i) ==
    IF i > Len(s) THEN 0
    ELSE IF CharAt(s, i) = c THEN i ELSE FindFrom(s, c, i + 1)

Find(s, c) == FindFrom(s, c, 1)

\* str.split(sep, maxsplit) for a one-character separator
RECURSIVE Split(_, _, _)
Split(s, sep, maxsplit) ==
    LET i == Find(s, sep)
    IN  IF maxsplit = 0 \/ i = 0 THEN <<s>>
        ELSE <<SubSeq(s, 1, i - 1)>> \o Split(SubSeq(s, i + 1, Len(s)), sep, maxsplit - 1)

\* index of the first whitespace character of s, Len(s) + 1 if none
RECURSIVE WordEnd(_, _)
WordEnd(s, i) ==
    IF i > Len(s) \/ IsSpace(CharAt(s, i)) THEN i ELSE WordEnd(s, i + 1)

\* str.split(): the maximal runs of non-whitespace characters
RECURSIVE Words(_)
Words(s) ==
    LET t == LStrip(s)
        e == WordEnd(t, 1)
    IN  IF t = "" THEN <<>>
        ELSE <<SubSeq(t, 1, e - 1)>> \o Words(SubSeq(t, e, Len(t)))

----------------------------------------------------------------------------
(* JSON values of a request body *)

JAbsent == [t |-> "absent", n |-> 0, s |-> ""]
JNum(n) == [t |-> "num", n |-> n, s |-> ""]
JStr(s) == [t |-> "str", n |-> 0, s |-> s]

\* Python truthiness of data.get(f)
Truthy(v) == (v.t = "num" /\ v.n # 0) \/ (v.t = "str" /\ v.s # "")

NoResp == [status |-> 0, error |-> "", id |-> 0, body |-> <<>>]
Ok(status, id, body) == [status |-> status, error |-> "", id |-> id, body |-> body]
Err(status, msg) == [status |-> status, error |-> msg, id |-> 0, body |-> <<>>]

NoReq == [op |-> "none", hid |-> 0, data |-> <<>>]
NoPending == [action |-> "", ticker |-> "", name |-> "", fields |-> <<>>, resp |-> NoResp]

----------------------------------------------------------------------------
(* Target allocations *)

Pct(n) == n * 128

\* the four rows init_db inserts
DefaultTargets ==
    << [asset_type |-> "stock",       target_percentage |-> Pct(60)],
       [asset_type |-> "bond",        target_percentage |-> Pct(30)],
       [asset_type |-> "etf",         target_percentage |-> Pct(5)],
       [asset_type |-> "mutual_fund", target_percentage |-> Pct(5)] >>

TypesOf(rows) == {rows[i].asset_type : i \in DOMAIN rows}

\* INSERT OR IGNORE of the default rows: a row whose asset_type exists is kept
RECURSIVE InsertOrIgnore(_, _)
InsertOrIgnore(rows, new) ==
    IF new = <<>> THEN rows
    ELSE InsertOrIgnore(
            IF Head(new).asset_type \in TypesOf(rows) THEN rows ELSE Append(rows, Head(new)),
            Tail(new))

init_db(rows) == InsertOrIgnore(rows, DefaultTargets)

\* sum(float(item["target_percentage"]) for item in data)
RECURSIVE SumPct(_)
SumPct(data) == IF data = <<>> THEN 0 ELSE Head(data).target_percentage + SumPct(Tail(data))

\* the check without abs(): a total below 100 passes
OutOfTolerance_NoAbs(total) == (total - Pct(100)) * 100 > 128

\* abs(total - 100) > 0.01, in units of 1/128 percent
OutOfTolerance(total) == Abs(total - Pct(100)) * 100 > 128

\* the statement with ON CONFLICT(asset_type) DO NOTHING: an existing row is kept
Upsert_DoNothing(rows, item) ==
    IF item.asset_type \in TypesOf(rows) THEN rows
    ELSE Append(rows, [asset_type |-> item.asset_type,
                       target_percentage |-> item.target_percentage])

\* INSERT ... ON CONFLICT(asset_type) DO UPDATE SET target_percentage = excluded...
Upsert(rows, item) ==
    IF item.asset_type \in TypesOf(rows)
    THEN [i \in DOMAIN rows |->
            IF rows[i].asset_type = item.asset_type
            THEN [rows[i] EXCEPT !.target_percentage = item.target_percentage]
            ELSE rows[i]]
    ELSE Append(rows, [asset_type |-> item.asset_type,
                       target_percentage |-> item.target_percentage])

RECURSIVE UpsertAll(_, _)
UpsertAll(rows, data) ==
    IF data = <<>> THEN rows ELSE UpsertAll(Upsert(rows, Head(data)), Tail(data))

SumError(total) == "Allocations must sum to 100% (currently " \o Fmt1(total) \o "%)"

\* PUT /api/allocations
update_allocations(data) ==
    /\ pending = NoPending
    /\ req' = [op |-> "update_allocations", hid |-> 0, data |-> data]
    /\ LET total == SumPct(data)
       IN  IF OutOfTolerance(total)
           THEN /\ resp' = Err(400, SumError(total))
                /\ targets' = targets
           ELSE /\ targets' = UpsertAll(targets, data)
                /\ resp' = Ok(200, 0, <<>>)
    /\ UNCHANGED <<holdings, nextId, auditLog, now, pending>>

\* GET /api/allocations: SELECT * FROM target_allocations ORDER BY asset_type
get_allocations ==
    /\ pending = NoPending
    /\ req' = [op |-> "get_allocations", hid |-> 0, data |-> <<>>]
    /\ resp' = Ok(200, 0, targets)
    /\ UNCHANGED <<holdings, nextId, targets, auditLog, now, pending>>

----------------------------------------------------------------------------
(* Audit log: one formatted line per call of audit() *)

\* stands for the em dash audit() writes for an empty ticker
Placeholder == "~"

\* %(asctime)s with datefmt "%Y-%m-%d %H:%M:%S", the clock counting seconds
Timestamp(t) == "2026-02-21 14:30:" \o TwoDigits(t)

\* "  ".join(f"{k}=${v:.2f}" ...): every value the handlers pass is a float
RECURSIVE JoinFields(_)
JoinFields(fields) ==
    IF fields = <<>> THEN ""
    ELSE Head(fields).k \o "=$" \o Fmt2(Head(fields).v)
         \o (IF Len(fields) > 1 THEN "  " ELSE "") \o JoinFields(Tail(fields))

\* the line audit(action, ticker, name, **fields) hands to the file handler
audit(t, action, ticker, name, fields) ==
    LET ticker_col == LJust(IF ticker # "" THEN ticker ELSE Placeholder, 6)
    IN  Timestamp(t) \o " | " \o LJust(action, 6) \o " | " \o ticker_col
        \o " | " \o name \o " | " \o JoinFields(fields)

\* fields[k] = v for every token holding "=", later tokens overwriting earlier
RECURSIVE ParseFields(_)
ParseFields(tokens) ==
    IF tokens = <<>> THEN << >>
    ELSE LET tok  == tokens[Len(tokens)]
             rest == ParseFields(SubSeq(tokens, 1, Len(tokens) - 1))
             i    == Find(tok, "=")
         IN  IF i = 0 THEN rest
             ELSE (SubSeq(tok, 1, i - 1) :> SubSeq(tok, i + 1, Len(tok))) @@ rest

\* the loop body of get_audit_log for one line: <<entry>> or <<>> if skipped
ParseLine(raw) ==
    LET line  == Strip(raw)
        split == Split(line, "|", 4)
        parts == [i \in DOMAIN split |-> Strip(split[i])]
    IN  IF line = "" \/ Len(parts) < 4 THEN <<>>
        ELSE << [timestamp |-> parts[1],
                 action    |-> Strip(parts[2]),
                 ticker    |-> Strip(parts[3]),
                 name      |-> Strip(parts[4]),
                 fields    |-> ParseFields(Words(IF Len(parts) = 5 THEN parts[5] ELSE ""))] >>

RECURSIVE ParseLines(_)
ParseLines(lines) ==
    IF lines = <<>> THEN <<>> ELSE ParseLine(Head(lines)) \o ParseLines(Tail(lines))

Reverse(seq) == [i \in DOMAIN seq |-> seq[Len(seq) + 1 - i]]

\* the entries GET /api/audit returns for a log file (exists = FALSE: no file)
ReadAuditLog(exists, lines) == IF exists THEN Reverse(ParseLines(lines)) ELSE <<>>

----------------------------------------------------------------------------
(* Holdings *)

RequiredFields == <<"name", "asset_type", "cost_basis", "current_value">>

\* the check as "not data.get(f)" alone: a zero counts as missing
IsMissing_Falsy(v) == ~Truthy(v)

\* not data.get(f) and data.get(f) != 0
IsMissing(v) == ~Truthy(v) /\ ~(v.t = "num" /\ v.n = 0)

RECURSIVE MissingOf(_, _)
MissingOf(data, fs) ==
    IF fs = <<>> THEN <<>>
    ELSE (IF IsMissing(data[Head(fs)]) THEN <<Head(fs)>> ELSE <<>>) \o MissingOf(data, Tail(fs))

\* ", ".join(missing)
RECURSIVE JoinComma(_)
JoinComma(names) ==
    IF names = <<>> THEN ""
    ELSE Head(names) \o (IF Len(names) > 1 THEN ", " ELSE "") \o JoinComma(Tail(names))

MissingError(missing) == "Missing required fields: " \o JoinComma(missing)

\* data.get(f) or default, for a text field
TextOr(v, default) == IF Truthy(v) THEN v.s ELSE default

\* the numeric fields read as "data.get(f) or default": a zero keeps the old value
NumOr_Falsy(v, default) == IF Truthy(v) THEN v.n ELSE default

\* data.get(f) if data.get(f) is not None else default, for a numeric field
NumOr(v, default) == IF v.t # "absent" THEN v.n ELSE default

\* the row add_holding inserts
NewRow(id, data, t) ==
    [id            |-> id,
     name          |-> Strip(data.name.s),
     ticker        |-> Upper(Strip(TextOr(data.ticker, ""))),
     asset_type    |-> data.asset_type.s,
     shares        |-> IF Truthy(data.shares) THEN data.shares.n ELSE 0,
     cost_basis    |-> data.cost_basis.n,
     current_value |-> data.current_value.n,
     purchase_date |-> TextOr(data.purchase_date, ""),
     notes         |-> Strip(TextOr(data.notes, "")),
     created_at    |-> t,
     updated_at    |-> t]

\* the row update_holding writes over row
UpdatedRow(row, data, t) ==
    [id            |-> row.id,
     name          |-> Strip(TextOr(data.name, row.name)),
     ticker        |-> Upper(Strip(TextOr(data.ticker, row.ticker))),
     asset_type    |-> TextOr(data.asset_type, row.asset_type),
     shares        |-> NumOr(data.shares, row.shares),
     cost_basis    |-> NumOr(data.cost_basis, row.cost_basis),
     current_value |-> NumOr(data.current_value, row.current_value),
     purchase_date |-> TextOr(data.purchase_date, row.purchase_date),
     notes         |-> Strip(TextOr(data.notes, row.notes)),
     created_at    |-> row.created_at,
     updated_at    |-> t]

Field(k, v) == [k |-> k, v |-> v]

Put(table, id, row) == [i \in DOMAIN table \cup {id} |-> IF i = id THEN row ELSE table[i]]
Remove(table, id) == [i \in DOMAIN table \ {id} |-> table[i]]

\* POST /api/holdings, up to db.commit(); the audit() call is left pending
add_holding(data) ==
    /\ pending = NoPending
    /\ req' = [op |-> "add_holding", hid |-> 0, data |-> data]
    /\ LET missing == MissingOf(data, RequiredFields)
       IN  IF missing # <<>>
           THEN /\ resp' = Err(400, MissingError(missing))
                /\ UNCHANGED <<holdings, nextId, pending>>
           ELSE /\ LET row == NewRow(nextId, data, now)
                   IN  /\ holdings' = Put(holdings, nextId, row)
                       /\ pending' = [action |-> "ADD",
                                      ticker |-> row.ticker,
                                      name   |-> row.name,
                                      fields |-> << Field("current_value", row.current_value),
                                                    Field("cost_basis", row.cost_basis) >>,
                                      resp   |-> Ok(201, nextId, <<>>)]
                /\ nextId' = nextId + 1
                /\ resp' = NoResp
    /\ UNCHANGED <<targets, auditLog, now>>

\* PUT /api/holdings/<hid>, up to db.commit()
update_holding(hid, data) ==
    /\ pending = NoPending
    /\ req' = [op |-> "update_holding", hid |-> hid, data |-> data]
    /\ IF hid \notin DOMAIN holdings
       THEN /\ resp' = Err(404, "Not found")
            /\ UNCHANGED <<holdings, pending>>
       ELSE /\ LET row == holdings[hid]
                   new == UpdatedRow(row, data, now)
               IN  /\ holdings' = Put(holdings, hid, new)
                   /\ pending' = [action |-> "EDIT",
                                  ticker |-> new.ticker,
                                  name   |-> new.name,
                                  fields |-> << Field("value_change", new.current_value - row.current_value),
                                                Field("cost_basis_change", new.cost_basis - row.cost_basis),
                                                Field("current_value", new.current_value),
                                                Field("cost_basis", new.cost_basis) >>,
                                  resp   |-> Ok(200, 0, <<>>)]
            /\ resp' = NoResp
    /\ UNCHANGED <<nextId, targets, auditLog, now>>

\* delete_holding without the existence check: an unknown id is answered 200
delete_holding_Unchecked(hid) ==
    /\ pending = NoPending
    /\ req' = [op |-> "delete_holding", hid |-> hid, data |-> <<>>]
    /\ holdings' = Remove(holdings, hid)
    /\ resp' = IF hid \in DOMAIN holdings THEN NoResp ELSE Ok(200, 0, <<>>)
    /\ pending' = IF hid \in DOMAIN holdings
                   THEN [action |-> "DELETE",
                         ticker |-> holdings[hid].ticker,
                         name   |-> holdings[hid].name,
                         fields |-> << Field("current_value", holdings[hid].current_value),
                                       Field("cost_basis", holdings[hid].cost_basis) >>,
                         resp   |-> Ok(200, 0, <<>>)]
                   ELSE NoPending
    /\ UNCHANGED <<nextId, targets, auditLog, now>>

\* DELETE /api/holdings/<hid>, up to db.commit()
delete_holding(hid) ==
    /\ pending = NoPending
    /\ req' = [op |-> "delete_holding", hid |-> hid, data |-> <<>>]
    /\ IF hid \notin DOMAIN holdings
       THEN /\ resp' = Err(404, "Not found")
            /\ UNCHANGED <<holdings, pending>>
       ELSE /\ LET row == holdings[hid]
               IN  /\ holdings' = Remove(holdings, hid)
                   /\ pending' = [action |-> "DELETE",
                                  ticker |-> row.ticker,
                                  name   |-> row.name,
                                  fields |-> << Field("current_value", row.current_value),
                                                Field("cost_basis", row.cost_basis) >>,
                                  resp   |-> Ok(200, 0, <<>>)]
            /\ resp' = NoResp
    /\ UNCHANGED <<nextId, targets, auditLog, now>>

\* the log file opened for writing, not appending, at every record
write_audit_Truncating ==
    /\ pending # NoPending
    /\ auditLog' = <<audit(now, pending.action, pending.ticker, pending.name, pending.fields)>>
    /\ resp' = pending.resp
    /\ pending' = NoPending
    /\ UNCHANGED <<holdings, nextId, targets, now, req>>

\* the rest of a mutating handler: the audit() call, then the response
write_audit ==
    /\ pending # NoPending
    /\ auditLog' = Append(auditLog,
                          audit(now, pending.action, pending.ticker, pending.name, pending.fields))
    /\ resp' = pending.resp
    /\ pending' = NoPending
    /\ UNCHANGED <<holdings, nextId, targets, now, req>>

\* the process stops between db.commit() and audit(), and is started again
crash ==
    /\ pending # NoPending
    /\ pending' = NoPending
    /\ targets' = init_db(targets)
    /\ UNCHANGED <<holdings, nextId, auditLog, now, req, resp>>

\* GET /api/audit
get_audit_log ==
    /\ pending = NoPending
    /\ req' = [op |-> "get_audit_log", hid |-> 0, data |-> <<>>]
    /\ resp' = Ok(200, 0, ReadAuditLog(TRUE, auditLog))
    /\ UNCHANGED <<holdings, nextId, targets, auditLog, now, pending>>

\* time passes
tick ==
    /\ now < MaxClock
    /\ now' = now + 1
    /\ UNCHANGED <<holdings, nextId, targets, auditLog, pending, req, resp>>

----------------------------------------------------------------------------
(* Rebalancing *)

\* the characters of the model in code point order
CodeOrder == "\t $-.0123456789=ABCDEFGHIJKLMNOPQRSTUVWXYZ_abcdefghijklmnopqrstuvwxyz|~"

\* a < b for Python strings: lexicographic by code point
RECURSIVE StrLess(_, _)
StrLess(a, b) ==
    IF b = "" THEN FALSE
    ELSE IF a = "" THEN TRUE
    ELSE IF Head(a) = Head(b) THEN StrLess(Tail(a), Tail(b))
    ELSE Find(CodeOrder, Head(a)) < Find(CodeOrder, Head(b))

\* one step of sorted(..., key=asset_type): x goes after every element not greater
RECURSIVE InsertSorted(_, _)
InsertSorted(sorted, x) ==
    IF sorted = <<>> THEN <<x>>
    ELSE IF StrLess(x.asset_type, Head(sorted).asset_type) THEN <<x>> \o sorted
    ELSE <<Head(sorted)>> \o InsertSorted(Tail(sorted), x)

RECURSIVE SortByType(_)
SortByType(recs) ==
    IF recs = <<>> THEN <<>>
    ELSE InsertSorted(SortByType(SubSeq(recs, 1, Len(recs) - 1)), recs[Len(recs)])

\* sum(h["current_value"] for h in holdings if h["asset_type"] in types)
RECURSIVE SumValue(_, _, _)
SumValue(table, ids, types) ==
    IF ids = {} THEN 0
    ELSE LET i == CHOOSE j \in ids : TRUE
         IN  (IF table[i].asset_type \in types THEN table[i].current_value ELSE 0)
             + SumValue(table, ids \ {i}, types)

HeldTypes(table) == {table[i].asset_type : i \in DOMAIN table}

\* the band closed at its ends: a difference of exactly 1 is a "Buy"
ActionOf_Inclusive(diff) ==
    IF diff >= 51200 THEN "Buy" ELSE IF diff <= -51200 THEN "Sell" ELSE "Hold"

\* "Buy" if diff > 1 else "Sell" if diff < -1 else "Hold"; diff in 1/51200 dollar
ActionOf(diff) == IF diff > 51200 THEN "Buy" ELSE IF diff < -51200 THEN "Sell" ELSE "Hold"

\* the recommendation for one target row.  total_value and current_value are
\* in quarter dollars; target_value = total_value * target_pct / 100 and
\* difference = target_value - current_value are exact numerators over 51200
\* (quarter dollars times 1/128 percent, over 100); current_pct is the pair
\* current_value * 100 over total_value, 0 over 1 when total_value is 0.
Recommendation(t, table) ==
    LET total_value == SumValue(table, DOMAIN table, HeldTypes(table))
        curr_val    == SumValue(table, DOMAIN table, {t.asset_type})
        target_val  == total_value * t.target_percentage
        diff        == target_val - curr_val * 12800
    IN  [asset_type    |-> t.asset_type,
         current_value |-> curr_val,
         current_pct   |-> IF total_value # 0 THEN <<curr_val * 100, total_value>> ELSE <<0, 1>>,
         target_pct    |-> t.target_percentage,
         target_value  |-> target_val,
         difference    |-> diff,
         action        |-> ActionOf(diff)]

Recommendations(rows, table) == [i \in DOMAIN rows |-> Recommendation(rows[i], table)]

\* GET /api/rebalance
get_rebalance ==
    /\ pending = NoPending
    /\ req' = [op |-> "get_rebalance", hid |-> 0, data |-> <<>>]
    /\ resp' = Ok(200, 0, SortByType(Recommendations(targets, holdings)))
    /\ UNCHANGED <<holdings, nextId, targets, auditLog, now, pending>>

----------------------------------------------------------------------------
(* Initial state: a fresh database after init_db, an empty log file *)

Init ==
    /\ holdings = [i \in {} |-> 0]
    /\ nextId = 1
    /\ targets = init_db(<<>>)
    /\ auditLog = <<>>
    /\ now = 0
    /\ pending = NoPending
    /\ req = NoReq
    /\ resp = NoResp

----------------------------------------------------------------------------
(* Allocation requests *)

AllocTypes == {"bond", "cash"}
AllocPcts == {Pct(49), Pct(50), Pct(50) + 1, Pct(100)}
AllocItems == [asset_type : AllocTypes, target_percentage : AllocPcts]
AllocBodies == UNION {[1..n -> AllocItems] : n \in 0..MaxItems}

NextAlloc ==
    \/ \E data \in AllocBodies : update_allocations(data)
    \/ get_allocations

SpecAlloc == Init /\ [][NextAlloc]_vars

----------------------------------------------------------------------------
(* Holding requests *)

Body(name, ticker, asset_type, shares, cost_basis, current_value, purchase_date, notes) ==
    [name |-> name, ticker |-> ticker, asset_type |-> asset_type, shares |-> shares,
     cost_basis |-> cost_basis, current_value |-> current_value,
     purchase_date |-> purchase_date, notes |-> notes]

EmptyBody == Body(JAbsent, JAbsent, JAbsent, JAbsent, JAbsent, JAbsent, JAbsent, JAbsent)

\* the bounds as guards: a request that will write finds room for its id and
\* for its audit line; a request that will be rejected is never held back
AddFits(data, maxLog) ==
    MissingOf(data, RequiredFields) = <<>> => nextId <= MaxId /\ Len(auditLog) < maxLog
WriteFits(hid, maxLog) == hid \in DOMAIN holdings => Len(auditLog) < maxLog

\* ids a request can name: the ids handed out and one never handed out
Ids == 1..(MaxId + 1)

Apple == Body(JStr(" Apple Inc. "), JStr("aapl"), JStr("stock"), JNum(200), JNum(30000),
              JNum(44800), JStr("2021-03-15"), JStr(" core "))
IBond == Body(JStr("US I Bond"), JAbsent, JStr("bond"), JAbsent, JNum(0), JNum(0), JAbsent, JAbsent)

----------------------------------------------------------------------------
(* The audit trail: every handler, a few bodies each, and process stops *)

AuditAddBodies == {Apple, [EmptyBody EXCEPT !.ticker = JStr("x")]}
AuditUpdateBodies == {[EmptyBody EXCEPT !.current_value = JNum(0)]}
AuditAllocBodies ==
    { <<[asset_type |-> "cash", target_percentage |-> Pct(100)]>>,
      <<[asset_type |-> "cash", target_percentage |-> Pct(50)]>> }

NextAudit ==
    \/ \E data \in AuditAddBodies : AddFits(data, MaxAuditLog) /\ add_holding(data)
    \/ \E hid \in Ids, data \in AuditUpdateBodies : WriteFits(hid, MaxAuditLog) /\ update_holding(hid, data)
    \/ \E hid \in Ids : WriteFits(hid, MaxAuditLog) /\ delete_holding(hid)
    \/ write_audit
    \/ crash
    \/ get_audit_log
    \/ get_allocations
    \/ \E data \in AuditAllocBodies : update_allocations(data)

SpecAudit == Init /\ [][NextAudit]_vars

----------------------------------------------------------------------------
(* Creating holdings: every required field absent, empty, zero or set *)

CreateBodies ==
    { [EmptyBody EXCEPT !.name = n, !.asset_type = a, !.cost_basis = c, !.current_value = v] :
        n \in {JAbsent, JStr(""), JStr("  "), JStr(" Apple Inc.")},
        a \in {JAbsent, JStr("stock")},
        c \in {JAbsent, JStr(""), JNum(0)},
        v \in {JAbsent, JNum(0), JNum(44800)} }

RenameBodies == {[EmptyBody EXCEPT !.name = n] : n \in {JStr(" "), JStr("Apple")}}

NextCreate ==
    \/ \E data \in CreateBodies : AddFits(data, MaxCreateLog) /\ add_holding(data)
    \/ \E hid \in Ids, data \in RenameBodies : WriteFits(hid, MaxCreateLog) /\ update_holding(hid, data)
    \/ write_audit

SpecCreate == Init /\ [][NextCreate]_vars

----------------------------------------------------------------------------
(* Updating and deleting holdings: each field omitted or supplied *)

FullPatch == Body(JStr("Apple"), JStr("agg "), JStr("etf"), JNum(0), JNum(0), JNum(0),
                  JStr("2022-01-20"), JStr("sold"))

FieldNames == {"name", "ticker", "asset_type", "shares", "cost_basis", "current_value",
               "purchase_date", "notes"}

\* no field, one field, every field
UpdateBodies ==
    {EmptyBody, FullPatch}
    \cup {[EmptyBody EXCEPT ![f] = FullPatch[f]] :
            f \in {"name", "shares", "cost_basis", "current_value"}}

NextUpdate ==
    \/ \E data \in {Apple, IBond} : AddFits(data, MaxUpdateLog) /\ add_holding(data)
    \/ \E hid \in Ids, data \in UpdateBodies : WriteFits(hid, MaxUpdateLog) /\ update_holding(hid, data)
    \/ \E hid \in Ids : WriteFits(hid, MaxUpdateLog) /\ delete_holding(hid)
    \/ write_audit
    \/ pending = NoPending /\ tick

SpecUpdate == Init /\ [][NextUpdate]_vars

----------------------------------------------------------------------------
(* Rebalancing: holdings of three types, one of them without a target row *)

RebalanceBodies ==
    { [EmptyBody EXCEPT !.name = JStr("h"), !.asset_type = JStr(a),
                        !.cost_basis = JNum(0), !.current_value = JNum(v)] :
        a \in {"stock", "bond", "gold"}, v \in {0, 16, 20, 24} }

RebalanceAllocBodies ==
    { <<[asset_type |-> "stock", target_percentage |-> Pct(50)],
        [asset_type |-> "bond",  target_percentage |-> Pct(50)]>>,
      <<[asset_type |-> "cash",  target_percentage |-> Pct(100)]>> }

NextRebalance ==
    \/ \E data \in RebalanceBodies : AddFits(data, MaxRebalanceLog) /\ add_holding(data)
    \/ write_audit
    \/ \E data \in RebalanceAllocBodies : update_allocations(data)
    \/ get_rebalance

SpecRebalance == Init /\ [][NextRebalance]_vars

----------------------------------------------------------------------------
(* Reading the audit log back: names and tickers of every shape *)

RoundTripBodies ==
    { [EmptyBody EXCEPT !.name = JStr(n), !.ticker = t, !.asset_type = JStr("stock"),
                        !.cost_basis = JNum(30000), !.current_value = JNum(44800)] :
        n \in {"Apple Inc.", "A|B"}, t \in {JAbsent, JStr("aapl")} }

RoundTripPatches ==
    { [EmptyBody EXCEPT !.current_value = JNum(44801)],
      [EmptyBody EXCEPT !.name = JStr("Johnson & Johnson"), !.cost_basis = JNum(0)] }

NextRoundTrip ==
    \/ \E data \in RoundTripBodies : AddFits(data, MaxRoundTripLog) /\ add_holding(data)
    \/ \E hid \in Ids, data \in RoundTripPatches : WriteFits(hid, MaxRoundTripLog) /\ update_holding(hid, data)
    \/ \E hid \in Ids : WriteFits(hid, MaxRoundTripLog) /\ delete_holding(hid)
    \/ write_audit
    \/ get_audit_log

SpecRoundTrip == Init /\ [][NextRoundTrip]_vars

----------------------------------------------------------------------------
(* Properties of the allocation store, checked under SpecAlloc *)

\* sub occurs in s
Contains(s, sub) ==
    \E i \in 1..(Len(s) - Len(sub) + 1) : SubSeq(s, i, i + Len(sub) - 1) = sub

\* the numerals with one decimal that are nearest to u/128
OneDecimal(u) ==
    { NatStr(t \div 10) \o "." \o DigitChar(t % 10) :
        t \in {x \in {(u * 10) \div 128, (u * 10) \div 128 + 1} : Abs(x * 128 - u * 10) <= 64} }

\* the step is a handler taking up a request of kind op
Handles(op) == pending = NoPending /\ now' = now /\ req'.op = op

IsAllocationPut == Handles("update_allocations")

\* C1: in every reachable state the target percentages of all rows of
\* target_allocations sum to 100 within 0.01.
C1_StoredSumIs100 == Abs(SumPct(targets) - Pct(100)) * 100 <= 128

\* C2: a PUT /api/allocations whose percentages sum to a total more than 0.01
\* away from 100 is answered 400 with the total to one decimal in the message
\* and leaves every row as it was; any other total is accepted.
C2_AllOrNothing ==
    [][ IsAllocationPut =>
          LET total == SumPct(req'.data)
          IN  IF Abs(total - 12800) * 100 > 128
              THEN /\ resp'.status = 400
                   /\ \E d \in OneDecimal(total) :
                        Contains(resp'.error, "currently " \o d \o "%")
                   /\ targets' = targets
              ELSE resp'.status = 200 ]_vars

\* a total of 99 has been rejected with "99.0" in the message after an
\* accepted PUT had inserted a cash row, which is still there
C2_Witness ==
    /\ req.op = "update_allocations"
    /\ resp.status = 400
    /\ SumPct(req.data) = Pct(99)
    /\ Contains(resp.error, "99.0")
    /\ Len(targets) = 5

RowOf(rows, type) == CHOOSE j \in DOMAIN rows : rows[j].asset_type = type

OneRowPerType(rows) ==
    \A i, j \in DOMAIN rows : rows[i].asset_type = rows[j].asset_type => i = j

Untouched(data) ==
    \A j \in DOMAIN targets :
        targets[j].asset_type \notin TypesOf(data) =>
            j \in DOMAIN targets' /\ targets'[j] = targets[j]

\* C3 as stated: after an accepted PUT every submitted entry's asset type has
\* a row holding that entry's percentage, there is one row per asset type, and
\* the rows of the other asset types are untouched.
C3_EveryEntryStored ==
    [][ IsAllocationPut /\ resp'.status = 200 =>
          /\ \A i \in DOMAIN req'.data :
                /\ req'.data[i].asset_type \in TypesOf(targets')
                /\ targets'[RowOf(targets', req'.data[i].asset_type)].target_percentage
                      = req'.data[i].target_percentage
          /\ OneRowPerType(targets')
          /\ Untouched(req'.data) ]_vars

\* the last entry of data for the asset type of entry i
LastFor(data, i) ==
    data[CHOOSE k \in DOMAIN data :
            /\ data[k].asset_type = data[i].asset_type
            /\ \A m \in DOMAIN data : data[m].asset_type = data[i].asset_type => m <= k]

\* C3 amended: after an accepted PUT every submitted asset type has a row
\* holding the percentage of its last entry in the submitted list (inserted if
\* new, overwritten if existing), there is one row per asset type, and the
\* rows of the asset types not submitted are untouched.
C3_LastEntryStored ==
    [][ IsAllocationPut /\ resp'.status = 200 =>
          /\ \A i \in DOMAIN req'.data :
                /\ req'.data[i].asset_type \in TypesOf(targets')
                /\ targets'[RowOf(targets', req'.data[i].asset_type)].target_percentage
                      = LastFor(req'.data, i).target_percentage
          /\ OneRowPerType(targets')
          /\ Untouched(req'.data) ]_vars

\* an accepted PUT has overwritten the bond row, inserted a cash row and left
\* the stock row alone
C3_Witness ==
    /\ req.op = "update_allocations"
    /\ resp.status = 200
    /\ TypesOf(req.data) = {"bond", "cash"}
    /\ Len(targets) = 5
    /\ targets[5].asset_type = "cash"
    /\ targets[2] # DefaultTargets[2]
    /\ targets[1] = DefaultTargets[1]

----------------------------------------------------------------------------
(* Properties of the audit trail, checked under SpecAudit *)

Mutations == {"add_holding", "update_holding", "delete_holding"}

ActionCode(op) ==
    CASE op = "add_holding" -> "ADD" [] op = "update_holding" -> "EDIT"
      [] op = "delete_holding" -> "DELETE" [] OTHER -> ""

\* the action column of a log line
LineAction(line) == Strip(Split(line, "|", 4)[2])

\* the write the pending audit() call reports is in the table
WriteCommitted ==
    CASE pending.action = "ADD" ->
            /\ nextId - 1 \in DOMAIN holdings
            /\ holdings[nextId - 1].name = pending.name
      [] pending.action = "EDIT" ->
            /\ req.hid \in DOMAIN holdings
            /\ holdings[req.hid].current_value = pending.fields[3].v
      [] pending.action = "DELETE" -> req.hid \notin DOMAIN holdings
      [] OTHER -> FALSE

\* C4: the log only grows, one line at a time; the response of a successful
\* create, update or delete comes with exactly one new line, of action ADD,
\* EDIT or DELETE; a line is appended only once the write it reports is
\* committed, in a step that writes nothing to the table; a handler reaches
\* its audit() call only with its write committed; rejected requests, read
\* requests and allocation updates append nothing and leave no audit() call.
C4_AuditTrail ==
    [][ /\ Len(auditLog') \in {Len(auditLog), Len(auditLog) + 1}
        /\ SubSeq(auditLog', 1, Len(auditLog)) = auditLog
        /\ (req'.op \in Mutations /\ resp' # resp /\ resp'.status \in {200, 201}) =>
              /\ Len(auditLog') = Len(auditLog) + 1
              /\ LineAction(auditLog'[Len(auditLog')]) = ActionCode(req'.op)
        /\ auditLog' # auditLog =>
              /\ req.op \in Mutations
              /\ WriteCommitted
              /\ holdings' = holdings
              /\ resp'.status \in {200, 201}
        /\ pending' # NoPending => WriteCommitted'
        /\ (resp' # resp /\ resp'.status \in {400, 404}) =>
              auditLog' = auditLog /\ pending' = NoPending
        /\ (\E op \in {"get_audit_log", "get_allocations", "update_allocations"} : Handles(op)) =>
              auditLog' = auditLog /\ pending' = NoPending ]_vars

\* the process stopped after the commit of a create, so the holding has no ADD
\* line; its update and its delete were then logged, EDIT before DELETE
C4_Witness ==
    /\ req.op = "delete_holding"
    /\ resp.status = 200
    /\ holdings = << >>
    /\ nextId = 2
    /\ Len(auditLog) = 2
    /\ LineAction(auditLog[1]) = "EDIT"
    /\ LineAction(auditLog[2]) = "DELETE"

----------------------------------------------------------------------------
(* Properties of creating holdings, checked under SpecCreate *)

\* C5: every stored holding has a non-empty name.
C5_NameNonEmpty == \A i \in DOMAIN holdings : holdings[i].name # ""

RequiredSet == {RequiredFields[i] : i \in DOMAIN RequiredFields}

\* the create step for a body whose required fields in lacking are the ones
\* that fail validation
CreateValidates(lacking) ==
    IF lacking # {}
    THEN /\ resp'.status = 400
         /\ \A f \in lacking : Contains(resp'.error, f)
         /\ holdings' = holdings
         /\ auditLog' = auditLog
         /\ pending' = NoPending
    ELSE /\ nextId \notin DOMAIN holdings
         /\ DOMAIN holdings' = DOMAIN holdings \cup {nextId}
         /\ pending'.resp.status = 201
         /\ pending'.resp.id = nextId

\* the response of a create is the one prepared at its commit
CreateAnswers == pending.action = "ADD" /\ pending' = NoPending => resp' = pending.resp

\* C6 as stated: POST /api/holdings fails with 400 naming every required field
\* that is absent from the body, writing no row and no audit line; a body in
\* which all four are present succeeds with a new id.
C6_PresentSucceeds ==
    [][ /\ Handles("add_holding") =>
              CreateValidates({f \in RequiredSet : req'.data[f] = JAbsent})
        /\ CreateAnswers ]_vars

\* C6 amended: POST /api/holdings fails with 400 naming every required field
\* that is absent (or null) or an empty string, writing no row and no audit
\* line; a body in which name and asset_type are non-empty strings and
\* cost_basis and current_value are numbers succeeds with a new id, also when
\* cost_basis or current_value is 0.
C6_NonEmptySucceeds ==
    [][ /\ Handles("add_holding") =>
              CreateValidates({f \in RequiredSet : req'.data[f] \in {JAbsent, JStr("")}})
        /\ CreateAnswers ]_vars

\* a holding was created from a body whose cost_basis and current_value are 0
C6_Witness ==
    /\ req.op = "add_holding"
    /\ req.data.cost_basis = JNum(0)
    /\ req.data.current_value = JNum(0)
    /\ resp.status = 201
    /\ resp.id \in DOMAIN holdings
    /\ holdings[resp.id].current_value = 0

----------------------------------------------------------------------------
(* Properties of updating and deleting holdings, checked under SpecUpdate *)

NumericFields == {"shares", "cost_basis", "current_value"}

\* C7: a PUT /api/holdings/{id} of a stored id keeps every omitted field, gives
\* every supplied numeric field (0 too) the supplied value, keeps id and
\* created_at, changes no other holding, and is answered 200 without a further
\* write to the table.
C7_PartialUpdate ==
    [][ /\ (Handles("update_holding") /\ req'.hid \in DOMAIN holdings) =>
              LET old == holdings[req'.hid]
                  data == req'.data
              IN  /\ DOMAIN holdings' = DOMAIN holdings
                  /\ \A f \in FieldNames :
                        data[f] = JAbsent => holdings'[req'.hid][f] = old[f]
                  /\ \A f \in NumericFields :
                        data[f].t = "num" => holdings'[req'.hid][f] = data[f].n
                  /\ holdings'[req'.hid].id = old.id
                  /\ holdings'[req'.hid].created_at = old.created_at
                  /\ \A i \in DOMAIN holdings \ {req'.hid} : holdings'[i] = holdings[i]
                  /\ pending'.resp.status = 200
        /\ (pending.action = "EDIT" /\ pending' = NoPending) =>
              resp' = pending.resp /\ holdings' = holdings ]_vars

\* of two holdings, the first got cost_basis 0 by a PUT that supplied nothing
\* else, at a later time than it was created
C7_Witness ==
    /\ req.op = "update_holding"
    /\ resp.status = 200
    /\ req.data = [EmptyBody EXCEPT !.cost_basis = JNum(0)]
    /\ DOMAIN holdings = {1, 2}
    /\ holdings[req.hid].cost_basis = 0
    /\ holdings[req.hid].current_value # 0
    /\ holdings[req.hid].updated_at > holdings[req.hid].created_at

\* C8: DELETE and PUT /api/holdings/{id} for an id that is not in the table are
\* answered 404 "Not found", change no holding and lead to no audit line.
C8_UnknownId ==
    [][ (/\ Handles("update_holding") \/ Handles("delete_holding")
         /\ req'.hid \notin DOMAIN holdings) =>
              /\ resp'.status = 404
              /\ resp'.error = "Not found"
              /\ holdings' = holdings
              /\ auditLog' = auditLog
              /\ pending' = NoPending ]_vars

\* a holding that was deleted is deleted again, another one staying in the table
C8_Witness ==
    /\ req.op = "delete_holding"
    /\ resp.status = 404
    /\ req.hid < nextId
    /\ req.hid \notin DOMAIN holdings
    /\ holdings # << >>

----------------------------------------------------------------------------
(* Properties of rebalancing, checked under SpecRebalance *)

\* C9: the response of GET /api/rebalance has one recommendation per row of
\* target_allocations and no other, in ascending order of asset_type, each
\* with the summed current_value of its type, difference = total_value *
\* target_percentage / 100 - current_value, and action "Buy" above 1, "Sell"
\* below -1, "Hold" from -1 to 1.
C9_Rebalance ==
    req.op = "get_rebalance" =>
        LET recs  == resp.body
            total == SumValue(holdings, DOMAIN holdings, HeldTypes(holdings))
        IN  /\ Len(recs) = Len(targets)
            /\ TypesOf(recs) = TypesOf(targets)
            /\ \A i, j \in DOMAIN recs :
                  i < j => StrLess(recs[i].asset_type, recs[j].asset_type)
            /\ \A i \in DOMAIN recs :
                  LET t    == targets[RowOf(targets, recs[i].asset_type)]
                      curr == SumValue(holdings, DOMAIN holdings, {recs[i].asset_type})
                      d    == total * t.target_percentage - curr * 12800
                  IN  /\ recs[i].current_value = curr
                      /\ recs[i].difference = d
                      /\ recs[i].action =
                            (CASE d > 51200 -> "Buy" [] d < -51200 -> "Sell" [] OTHER -> "Hold")

RecOf(type) == resp.body[CHOOSE i \in DOMAIN resp.body : resp.body[i].asset_type = type]

\* with targets of 50% each, a stock holding of 4 and a bond holding of 6 give
\* differences of exactly 1 and -1, both "Hold"; the etf row, not held, has
\* current_value 0, and the rows come back in another order than stored
C9_Witness ==
    /\ req.op = "get_rebalance"
    /\ RecOf("stock").difference = 51200
    /\ RecOf("stock").action = "Hold"
    /\ RecOf("bond").difference = -51200
    /\ RecOf("bond").action = "Hold"
    /\ RecOf("etf").current_value = 0
    /\ resp.body[1].asset_type = "bond"
    /\ targets[1].asset_type = "stock"

\* a holding of a type without a target row gets no recommendation
C9_HeldWithoutTarget ==
    /\ req.op = "get_rebalance"
    /\ "gold" \in HeldTypes(holdings)
    /\ "gold" \notin TypesOf(resp.body)

----------------------------------------------------------------------------
(* Properties of reading the audit log back, checked under SpecRoundTrip *)

\* C10: GET /api/audit returns one entry per appended line, newest first, each
\* with the action, the ticker (or the placeholder) and the name that were
\* passed to audit(), and "$" and the two-decimal value for every field; with
\* no log file it returns the empty list.
C10_RoundTrip ==
    [][ /\ (pending # NoPending /\ auditLog' # auditLog) =>
              LET es == ReadAuditLog(TRUE, auditLog')
              IN  /\ Len(es) = Len(auditLog')
                  /\ es[1].action = pending.action
                  /\ es[1].ticker = (IF pending.ticker = "" THEN Placeholder ELSE pending.ticker)
                  /\ es[1].name = pending.name
                  /\ \A i \in DOMAIN pending.fields :
                        /\ pending.fields[i].k \in DOMAIN es[1].fields
                        /\ es[1].fields[pending.fields[i].k] = "$" \o Fmt2(pending.fields[i].v)
                  /\ Tail(es) = ReadAuditLog(TRUE, auditLog)
        /\ Handles("get_audit_log") => resp'.body = ReadAuditLog(TRUE, auditLog)
        /\ ReadAuditLog(FALSE, <<>>) = <<>> ]_vars

====
